---------------------------- MODULE Spec2Model ----------------------------
(***************************************************************************)
(* Model of biz_demos.py: a Streamlit script that resolves an API key,     *)
(* builds a model client, and routes to one of three demo renderers.  Each *)
(* renderer, on a button press, sends one prompt to the model, parses the  *)
(* response text with json.loads and renders widgets from the result.      *)
(*                                                                         *)
(* One script run is modelled from the top of the file to its end.  The    *)
(* response text is a sequence of JSON lexemes; json_loads is a recursive  *)
(* descent parser over it.  Python values are tagged records.  The screen  *)
(* is the sequence of content widgets the run has emitted.                 *)
(***************************************************************************)
EXTENDS Integers, Sequences, FiniteSets, TLC

VARIABLES
    secrets,        \* st.secrets: value under GOOGLE_API_KEY, or Absent
    environ,        \* os.environ: value under GOOGLE_API_KEY, or Absent
    api_key,        \* module-level api_key (Unset before line 13 has run)
    client,         \* TRUE once genai.Client(...) has been constructed
    pc,             \* position of the script run
    demo_choice,    \* the sidebar radio's value ("" before the router)
    competitor,     \* strategy demo: competitor after selectbox/text_input
    uploaded_file,  \* recruiter demo: the uploaded file
    calls,          \* generate_content calls issued in this run
    response,       \* the local `response` of the running renderer
    screen,         \* widgets emitted by this run, in order
    exc,            \* exception bound by the renderer's except clause
    escaped         \* what left the renderer: "", "StopException" or a type

vars == <<secrets, environ, api_key, client, pc, demo_choice, competitor,
          uploaded_file, calls, response, screen, exc, escaped>>

-----------------------------------------------------------------------------
(* Bounds of the model. *)

\* longest top-level JSON array the model endpoint returns
MaxElems == 2

\* longest list held in a list-valued field (analysis, kill_points, skills)
MaxItems == 1

-----------------------------------------------------------------------------
(* Python values. *)

PyStr(s)   == [t |-> "str", s |-> s]
PyNum(n)   == [t |-> "num", n |-> n]
PyList(xs) == [t |-> "list", items |-> xs]
PyDict(f)  == [t |-> "dict", d |-> f]

EmptyDict == [k \in {} |-> PyNum(0)]

\* The exception object `e`; str(e) is msg.
Exn(type, msg) == [type |-> type, msg |-> msg]
NoExn == Exn("", "")

-----------------------------------------------------------------------------
(* response.text as a sequence of JSON lexemes. *)

P(s)     == [k |-> "punct", s |-> s]
LStr(s)  == [k |-> "string", s |-> s]
LNum(n)  == [k |-> "number", n |-> n]
LBare(s) == [k |-> "bare", s |-> s]

IsP(tok, s) == tok.k = "punct" /\ tok.s = s

ParseFail == [ok |-> FALSE]
ParseOk(v, rest) == [ok |-> TRUE, v |-> v, rest |-> rest]

RECURSIVE ParseValue(_), ParseElements(_, _), ParseMembers(_, _)

\* elements of an array after '[' or ',': value (',' value)* ']'
ParseElements(toks, acc) ==
    LET r == ParseValue(toks) IN
    IF ~r.ok \/ Len(r.rest) = 0 THEN ParseFail
    ELSE IF IsP(Head(r.rest), ",")
         THEN ParseElements(Tail(r.rest), Append(acc, r.v))
    ELSE IF IsP(Head(r.rest), "]")
         THEN ParseOk(PyList(Append(acc, r.v)), Tail(r.rest))
    ELSE ParseFail

\* members of an object after '{' or ',': string ':' value (',' ...)* '}'
\* a repeated key keeps the last value, as Python's dict does
ParseMembers(toks, acc) ==
    IF Len(toks) < 2 \/ Head(toks).k # "string" \/ ~IsP(toks[2], ":")
    THEN ParseFail
    ELSE LET key == Head(toks).s
             r == ParseValue(SubSeq(toks, 3, Len(toks)))
         IN  IF ~r.ok \/ Len(r.rest) = 0 THEN ParseFail
             ELSE LET acc2 == [k \in DOMAIN acc \cup {key} |->
                                   IF k = key THEN r.v ELSE acc[k]]
                  IN  IF IsP(Head(r.rest), ",")
                      THEN ParseMembers(Tail(r.rest), acc2)
                      ELSE IF IsP(Head(r.rest), "}")
                      THEN ParseOk(PyDict(acc2), Tail(r.rest))
                      ELSE ParseFail

ParseValue(toks) ==
    IF Len(toks) = 0 THEN ParseFail
    ELSE LET h == Head(toks) IN
         IF h.k = "string" THEN ParseOk(PyStr(h.s), Tail(toks))
         ELSE IF h.k = "number" THEN ParseOk(PyNum(h.n), Tail(toks))
         ELSE IF IsP(h, "[")
              THEN IF Len(toks) > 1 /\ IsP(toks[2], "]")
                   THEN ParseOk(PyList(<<>>), SubSeq(toks, 3, Len(toks)))
                   ELSE ParseElements(Tail(toks), <<>>)
         ELSE IF IsP(h, "{")
              THEN IF Len(toks) > 1 /\ IsP(toks[2], "}")
                   THEN ParseOk(PyDict(EmptyDict), SubSeq(toks, 3, Len(toks)))
                   ELSE ParseMembers(Tail(toks), EmptyDict)
         ELSE ParseFail

\* json.loads(text): the value, or JSONDecodeError; trailing lexemes are an
\* error ("Extra data")
json_loads(text) ==
    LET r == ParseValue(text) IN
    IF r.ok /\ Len(r.rest) = 0
    THEN [ok |-> TRUE, v |-> r.v]
    ELSE [ok |-> FALSE, e |-> Exn("JSONDecodeError", "Expecting value")]

-----------------------------------------------------------------------------
(* The model endpoint's side: JSON text for a value (response_mime_type is *)
(* application/json).                                                      *)

KeyOrder == <<"risk_score", "risk_level", "analysis", "flag", "rewrite",
              "their_weakness", "our_strength", "kill_points",
              "pricing_comparison",
              "match_score", "summary", "key_missing_skills",
              "notice_period_detected", "recommendation", "outreach_draft">>

RECURSIVE Dumps(_), DumpsSeq(_), DumpsMembers(_, _)

DumpsSeq(xs) ==
    IF Len(xs) = 0 THEN <<>>
    ELSE Dumps(Head(xs)) \o
         (IF Len(xs) > 1 THEN <<P(",")>> \o DumpsSeq(Tail(xs)) ELSE <<>>)

DumpsMembers(f, keys) ==
    IF Len(keys) = 0 THEN <<>>
    ELSE <<LStr(Head(keys)), P(":")>> \o Dumps(f[Head(keys)]) \o
         (IF Len(keys) > 1 THEN <<P(",")>> \o DumpsMembers(f, Tail(keys))
          ELSE <<>>)

Dumps(v) ==
    CASE v.t = "str"  -> <<LStr(v.s)>>
      [] v.t = "num"  -> <<LNum(v.n)>>
      [] v.t = "list" -> <<P("[")>> \o DumpsSeq(v.items) \o <<P("]")>>
      [] v.t = "dict" ->
            <<P("{")>>
            \o DumpsMembers(v.d, SelectSeq(KeyOrder, LAMBDA k : k \in DOMAIN v.d))
            \o <<P("}")>>

-----------------------------------------------------------------------------
(* Python operations the renderers apply to the parsed value. *)

Ok(v)  == [ok |-> TRUE, v |-> v]
Err(e) == [ok |-> FALSE, e |-> e]

\* data[key] with a string key
GetItem(data, key) ==
    CASE data.t = "dict" ->
            IF key \in DOMAIN data.d THEN Ok(data.d[key])
            ELSE Err(Exn("KeyError", key))
      [] data.t = "list" ->
            Err(Exn("TypeError", "list indices must be integers or slices, not str"))
      [] data.t = "str" ->
            Err(Exn("TypeError", "string indices must be integers"))
      [] data.t = "num" ->
            Err(Exn("TypeError", "'int' object is not subscriptable"))

\* data.get(key, default)
GetOr(data, key, default) ==
    IF data.t = "dict"
    THEN Ok(IF key \in DOMAIN data.d THEN data.d[key] ELSE default)
    ELSE Err(Exn("AttributeError", "object has no attribute 'get'"))

\* variant of FirstItem: an empty list yields an empty dict instead of raising
FirstItem_OrEmptyDict(data) ==
    IF Len(data.items) > 0 THEN Ok(data.items[1]) ELSE Ok(PyDict(EmptyDict))

\* data[0] of a list
FirstItem(data) ==
    IF Len(data.items) > 0 THEN Ok(data.items[1])
    ELSE Err(Exn("IndexError", "list index out of range"))

\* v > n
GreaterThan(v, n) ==
    IF v.t = "num" THEN Ok(v.n > n)
    ELSE Err(Exn("TypeError", "'>' not supported"))

\* bool(v)
Truthy(v) ==
    CASE v.t = "list" -> Len(v.items) > 0
      [] v.t = "str"  -> v.s # ""
      [] v.t = "num"  -> v.n # 0
      [] v.t = "dict" -> DOMAIN v.d # {}

\* the items a for loop visits; the payloads hold lists and numbers in the
\* iterated fields (a str would iterate its characters)
Iterate(v) ==
    IF v.t = "list" THEN Ok(v.items)
    ELSE Err(Exn("TypeError", "object is not iterable"))

\* f"{v}" of a scalar
Format(v) ==
    CASE v.t = "str" -> v.s
      [] v.t = "num" -> ToString(v.n)
      [] OTHER       -> "<repr>"

\* strings in which "Unknown" or "Missing" occurs
NoticeMissingTexts == {"Unknown", "Missing", "Unknown (not in resume)"}

\* "Unknown" in np or "Missing" in np
MentionsUnknownOrMissing(np) ==
    CASE np.t = "str"  -> Ok(np.s \in NoticeMissingTexts)
      [] np.t = "list" -> Ok(\E i \in DOMAIN np.items :
                               /\ np.items[i].t = "str"
                               /\ np.items[i].s \in {"Unknown", "Missing"})
      [] np.t = "dict" -> Ok({"Unknown", "Missing"} \cap DOMAIN np.d # {})
      [] np.t = "num"  -> Err(Exn("TypeError", "argument of type 'int' is not iterable"))

-----------------------------------------------------------------------------
(* Widgets and the progress of a try block. *)

\* a content widget: the st.* call, its fixed text, the record field whose
\* value it shows ("" when none) and the formatted value
W(w, label, field, val) == [w |-> w, label |-> label, field |-> field, val |-> val]

\* a try block so far: widgets emitted, and the exception that ended it
Started == [out |-> <<>>, raised |-> FALSE, e |-> NoExn]
Emit(r, w) == IF r.raised THEN r ELSE [r EXCEPT !.out = Append(@, w)]
Raise(r, e) == IF r.raised THEN r ELSE [r EXCEPT !.raised = TRUE, !.e = e]

\* subclasses of Exception that can arise in the try blocks; st.stop() raises
\* StopException, which is not one of them
ExceptionTypes == {"JSONDecodeError", "KeyError", "TypeError", "IndexError",
                   "AttributeError", "APIError", "PdfReadError"}

\* variant of CatchesException: the clause is `except json.JSONDecodeError`
CatchesException_JsonOnly(e) == e.type = "JSONDecodeError"

\* `except Exception as e`
CatchesException(e) == e.type \in ExceptionTypes

-----------------------------------------------------------------------------
(* Demo 1: the try block and except clause of render_legal_demo. *)

RECURSIVE LegalItems(_, _)

\* the loop over data['analysis']
LegalItems(r, items) ==
    IF r.raised \/ Len(items) = 0 THEN r
    ELSE LET item == Head(items)
             flag == GetItem(item, "flag")
         IN  IF ~flag.ok THEN Raise(r, flag.e)
             ELSE LET r1 == Emit(r, W("expander", "Issue: ", "analysis", Format(flag.v)))
                      r2 == Emit(r1, W("markdown", "**Suggested Rewrite:**", "", ""))
                      rewrite == GetItem(item, "rewrite")
                  IN  IF ~rewrite.ok THEN Raise(r2, rewrite.e)
                      ELSE LegalItems(
                               Emit(r2, W("code", "", "analysis", Format(rewrite.v))),
                               Tail(items))

\* variant of LegalMetric: data.get('risk_score', 0) in place of data['risk_score']
LegalMetric_Default(r, data) ==
    LET score == GetOr(data, "risk_score", PyNum(0)) IN
    IF ~score.ok THEN Raise(r, score.e)
    ELSE Emit(r, W("metric", "Risk Score /100", "risk_score", Format(score.v)))

\* the metric column: st.metric("Risk Score", f"{data['risk_score']}/100")
LegalMetric(r, data) ==
    LET score == GetItem(data, "risk_score") IN
    IF ~score.ok THEN Raise(r, score.e)
    ELSE Emit(r, W("metric", "Risk Score /100", "risk_score", Format(score.v)))

\* the level column: colour from the score, text from data['risk_level']
LegalLevel(r, data) ==
    IF r.raised THEN r
    ELSE LET score == GetItem(data, "risk_score")
             gt == GreaterThan(score.v, 50)
         IN  IF ~score.ok THEN Raise(r, score.e)
             ELSE IF ~gt.ok THEN Raise(r, gt.e)
             ELSE LET level == GetItem(data, "risk_level") IN
                  IF ~level.ok THEN Raise(r, level.e)
                  ELSE Emit(r, W("markdown",
                                 IF gt.v THEN "### Level: :red[]"
                                         ELSE "### Level: :green[]",
                                 "risk_level", Format(level.v)))

\* the try block, from json.loads to the end of the loop
LegalTry(text) ==
    LET p == json_loads(text) IN
    IF ~p.ok THEN Raise(Started, p.e)
    ELSE LET data == p.v
             r2 == LegalLevel(LegalMetric(Started, data), data)
             r3 == Emit(Emit(r2, W("divider", "", "", "")),
                        W("subheader", "Redlines & Rewrites", "", ""))
         IN  IF r3.raised THEN r3
             ELSE LET analysis == GetItem(data, "analysis") IN
                  IF ~analysis.ok THEN Raise(r3, analysis.e)
                  ELSE LET it == Iterate(analysis.v) IN
                       IF ~it.ok THEN Raise(r3, it.e)
                       ELSE LegalItems(r3, it.v)

\* except Exception as e: st.error(f"Analysis failed: {e}")
LegalExcept(r) ==
    IF r.raised /\ CatchesException(r.e)
    THEN Append(r.out, W("error", "Analysis failed: ", "", r.e.msg))
    ELSE r.out

-----------------------------------------------------------------------------
(* Demo 2: the try block and except clause of render_strategy_demo. *)

RECURSIVE StrategyKillPoints(_, _)

\* for kp in data['kill_points']: st.markdown(f"- {kp}")
StrategyKillPoints(r, items) ==
    IF Len(items) = 0 THEN r
    ELSE StrategyKillPoints(
             Emit(r, W("markdown", "- ", "kill_points", Format(Head(items)))),
             Tail(items))

\* if isinstance(data, list): data = data[0]
StrategyUnwrap(parsed) ==
    IF parsed.t = "list" THEN FirstItem(parsed) ELSE Ok(parsed)

\* the two columns: st.error(their_weakness), st.success(our_strength)
StrategyColumns(r, data) ==
    LET weak == GetOr(data, "their_weakness", PyStr("N/A")) IN
    IF ~weak.ok THEN Raise(r, weak.e)
    ELSE LET r1 == Emit(r, W("error", "**Their Weakness:**", "their_weakness",
                             Format(weak.v)))
             strong == GetOr(data, "our_strength", PyStr("N/A"))
         IN  IF ~strong.ok THEN Raise(r1, strong.e)
             ELSE Emit(r1, W("success", "**Alkrie Advantage:**", "our_strength",
                             Format(strong.v)))

\* the guarded loop over kill_points, then the pricing line
StrategyPoints(r, data) ==
    IF r.raised THEN r
    ELSE LET r1 == Emit(Emit(r, W("markdown", "---", "", "")),
                        W("markdown", "#### Talking Points (Kill Points)", "", ""))
             r2 == IF /\ "kill_points" \in DOMAIN data.d
                      /\ data.d["kill_points"].t = "list"
                   THEN StrategyKillPoints(r1, data.d["kill_points"].items)
                   ELSE r1
             price == GetOr(data, "pricing_comparison", PyStr("N/A"))
         IN  IF ~price.ok THEN Raise(r2, price.e)
             ELSE Emit(r2, W("info", "**Pricing Angle:**", "pricing_comparison",
                             Format(price.v)))

\* the try block after the call has returned: json.loads to st.info
StrategyTry(text, comp) ==
    LET p == json_loads(text) IN
    IF ~p.ok THEN Raise(Started, p.e)
    ELSE LET u == StrategyUnwrap(p.v) IN
         IF ~u.ok THEN Raise(Started, u.e)
         ELSE LET r1 == Emit(Started, W("markdown", "### Strategy: Beating ", "", comp))
              IN  StrategyPoints(StrategyColumns(r1, u.v), u.v)

\* variant of StrategyExcept: the raw-output expander is left out
StrategyExcept_NoRaw(r, resp) ==
    IF r.raised /\ CatchesException(r.e)
    THEN Append(r.out, W("error", "Error generating battlecard: ", "", r.e.msg))
    ELSE r.out

\* except Exception as e: st.error(...); with `response` bound, an expander
\* holding st.text(response.text)
StrategyExcept(r, resp) ==
    IF r.raised /\ CatchesException(r.e)
    THEN LET out1 == Append(r.out, W("error", "Error generating battlecard: ", "",
                                     r.e.msg))
         IN  IF resp.bound
             THEN out1 \o <<W("expander", "See raw AI output", "", ""),
                            [w |-> "text", label |-> "", field |-> "",
                             val |-> "", raw |-> resp.text]>>
             ELSE out1
    ELSE r.out

-----------------------------------------------------------------------------
(* Demo 3: the try block and except clause of render_recruiter_demo. *)

RECURSIVE RecruiterSkillItems(_, _)

\* for skill in data['key_missing_skills']: st.markdown(f"- {skill}")
RecruiterSkillItems(r, items) ==
    IF Len(items) = 0 THEN r
    ELSE RecruiterSkillItems(
             Emit(r, W("markdown", "- ", "key_missing_skills", Format(Head(items)))),
             Tail(items))

\* column c1: st.metric("Match Score", f"{data['match_score']}%")
RecruiterMetric(r, data) ==
    LET score == GetItem(data, "match_score") IN
    IF ~score.ok THEN Raise(r, score.e)
    ELSE Emit(r, W("metric", "Match Score %", "match_score", Format(score.v)))

\* column c2: the verdict, green for "Shortlist" and red otherwise
RecruiterVerdict(r, data) ==
    IF r.raised THEN r
    ELSE LET rec == GetItem(data, "recommendation") IN
         IF ~rec.ok THEN Raise(r, rec.e)
         ELSE Emit(r, W("markdown",
                        IF rec.v.t = "str" /\ rec.v.s = "Shortlist"
                        THEN "### Verdict: :green[]" ELSE "### Verdict: :red[]",
                        "recommendation", Format(rec.v)))

\* column c3: the notice period alert with the outreach draft, then the summary
RecruiterNotice(r, data) ==
    IF r.raised THEN r
    ELSE LET np == GetItem(data, "notice_period_detected") IN
         IF ~np.ok THEN Raise(r, np.e)
         ELSE LET m == MentionsUnknownOrMissing(np.v)
                  draft == GetItem(data, "outreach_draft")
                  summary == GetItem(data, "summary")
              IN  IF ~m.ok THEN Raise(r, m.e)
                  ELSE LET r1 == IF m.v
                                 THEN Emit(Emit(r, W("warning", "Notice Period Missing", "", "")),
                                           W("markdown", "**AI-Generated Outreach (WhatsApp):**", "", ""))
                                 ELSE Emit(Emit(r, W("success", "Notice Period Found: ",
                                                     "notice_period_detected", Format(np.v))),
                                           W("expander", "View Outreach Message", "", ""))
                           r2 == IF ~draft.ok THEN Raise(r1, draft.e)
                                 ELSE Emit(r1, W(IF m.v THEN "text_area" ELSE "code",
                                                 IF m.v THEN "Copy this message:" ELSE "",
                                                 "outreach_draft", Format(draft.v)))
                       IN  IF r2.raised THEN r2
                           ELSE IF ~summary.ok THEN Raise(r2, summary.e)
                           ELSE Emit(r2, W("info", "**Summary:**", "summary",
                                           Format(summary.v)))

\* the missing-skills list, or balloons when it is empty
RecruiterSkills(r, data) ==
    IF r.raised THEN r
    ELSE LET skills == GetItem(data, "key_missing_skills") IN
         IF ~skills.ok THEN Raise(r, skills.e)
         ELSE IF Truthy(skills.v)
              THEN LET r1 == Emit(r, W("write", "**Missing / Weak Skills:**", "", ""))
                       it == Iterate(skills.v)
                   IN  IF ~it.ok THEN Raise(r1, it.e)
                       ELSE RecruiterSkillItems(r1, it.v)
              ELSE Emit(Emit(r, W("balloons", "", "", "")),
                        W("success", "Perfect Skill Match!", "", ""))

\* the try block after the call has returned
RecruiterTry(text) ==
    LET p == json_loads(text) IN
    IF ~p.ok THEN Raise(Started, p.e)
    ELSE RecruiterSkills(
             RecruiterNotice(
                 RecruiterVerdict(RecruiterMetric(Started, p.v), p.v), p.v), p.v)

\* except Exception as e: st.error(f"AI Error: {e}")
RecruiterExcept(r) ==
    IF r.raised /\ CatchesException(r.e)
    THEN Append(r.out, W("error", "AI Error: ", "", r.e.msg))
    ELSE r.out

-----------------------------------------------------------------------------
(* What the model endpoint may answer: JSON for an object of the requested *)
(* schema with any of its fields missing, the same wrapped in an array,    *)
(* an empty array, a scalar, or text that is not JSON.                     *)

SeqsUpTo(S, n) == UNION {[1..k -> S] : k \in 0..n}

\* the dicts that give each key of a subset of DOMAIN choices one of its values
DictsOver(choices) ==
    UNION {{PyDict(f) : f \in {g \in [K -> UNION {choices[k] : k \in K}] :
                                 \A k \in K : g[k] \in choices[k]}} :
           K \in SUBSET DOMAIN choices}

\* arrays of at most MaxElems elements: any object first, then decoys
ArraysOver(firsts, decoys) ==
    {PyList(<<f>> \o rest) : f \in firsts, rest \in SeqsUpTo(decoys, MaxElems - 1)}

Scalars == {PyNum(7), PyStr("I cannot help")}

NotJson == {<<LBare("Sorry, I cannot help.")>>,
            <<>>,
            <<P("{"), LStr("risk_score"), P(":")>>,
            <<P("{"), P("}"), LBare("Hope this helps!")>>}

TextsOf(objects, decoys) ==
    {Dumps(v) : v \in objects \cup ArraysOver(objects, decoys)
                      \cup {PyList(<<>>)} \cup Scalars}
    \cup NotJson

AnalysisItems ==
    {PyDict([flag |-> PyStr("Net 90 payment terms"), rewrite |-> PyStr("Net 30")]),
     PyDict([flag |-> PyStr("Unlimited indemnity")])}

LegalObjects ==
    DictsOver([risk_score |-> {PyNum(30), PyNum(80), PyStr("80")},
               risk_level |-> {PyStr("High"), PyStr("Low")},
               analysis   |-> {PyList(xs) : xs \in SeqsUpTo(AnalysisItems, MaxItems)}])

LegalDecoys ==
    {PyDict(EmptyDict),
     PyDict([risk_score |-> PyNum(99), risk_level |-> PyStr("Critical"),
             analysis |-> PyList(<<>>)])}

LegalTexts == TextsOf(LegalObjects, LegalDecoys)

StrategyObjects ==
    DictsOver([their_weakness     |-> {PyStr("Legacy UI")},
               our_strength       |-> {PyStr("AI-first")},
               kill_points        |-> {PyList(xs) : xs \in SeqsUpTo({PyStr("Faster setup")}, MaxItems)}
                                      \cup {PyStr("Faster setup")},
               pricing_comparison |-> {PyStr("30% cheaper")}])

StrategyDecoys ==
    {PyDict(EmptyDict),
     PyDict([their_weakness |-> PyStr("Pricey"), our_strength |-> PyStr("Support"),
             kill_points |-> PyList(<<PyStr("Open API")>>),
             pricing_comparison |-> PyStr("Same price")])}

StrategyTexts == TextsOf(StrategyObjects, StrategyDecoys)

RecruiterObjects ==
    DictsOver([match_score            |-> {PyNum(85)},
               summary                |-> {PyStr("Strong fit")},
               key_missing_skills     |-> {PyList(xs) : xs \in SeqsUpTo({PyStr("FastAPI")}, MaxItems)},
               notice_period_detected |-> {PyStr("Unknown"), PyStr("30 days"), PyNum(30)},
               recommendation         |-> {PyStr("Shortlist"), PyStr("Reject")},
               outreach_draft         |-> {PyStr("Hi, could you share your notice period?")}])

RecruiterDecoys ==
    {PyDict(EmptyDict),
     PyDict([match_score |-> PyNum(10), summary |-> PyStr("Weak fit"),
             key_missing_skills |-> PyList(<<PyStr("Python")>>),
             notice_period_detected |-> PyStr("90 days"),
             recommendation |-> PyStr("Hold"), outreach_draft |-> PyStr("Hello")])}

RecruiterTexts == TextsOf(RecruiterObjects, RecruiterDecoys)

-----------------------------------------------------------------------------
(* The script run. *)

Absent == "<absent>"
None   == "<None>"
Unset  == "<unset>"

\* what a secret store or the environment may hold under GOOGLE_API_KEY
KeySources == {Absent, "", "AIza-key"}

Legal     == "Legal Risk Auditor"
Strategy  == "Sales Battlecard Agent"
Recruiter == "Smart Resume Screener"

\* the selectbox's named competitors; "Custom..." leads to the text input
NamedCompetitors == {"Salesforce", "HubSpot", "Zendesk"}
\* what the text input may hold
CustomCompetitors == {"", "Pipedrive"}

\* the file uploader: nothing, a PDF pypdf cannot read, a text-based PDF
Uploads == {None, "scanned.pdf", "resume.pdf"}

NoResponse == [bound |-> FALSE, text |-> <<>>]

Init ==
    /\ secrets \in KeySources
    /\ environ \in KeySources
    /\ api_key = Unset
    /\ client = FALSE
    /\ pc = "startup"
    /\ demo_choice = ""
    /\ competitor = ""
    /\ uploaded_file = None
    /\ calls = 0
    /\ response = NoResponse
    /\ screen = <<>>
    /\ exc = NoExn
    /\ escaped = ""

\* lines 13-16: st.secrets first, else os.environ.get
ResolveKey ==
    IF secrets # Absent THEN secrets
    ELSE IF environ # Absent THEN environ ELSE None

\* variant of NotKey: `api_key is None`
NotKey_NoneOnly(k) == k = None

\* `not api_key`
NotKey(k) == k \in {None, ""}

\* lines 13-22: resolve the key; without one show the error and st.stop(),
\* else construct the client
Startup ==
    /\ pc = "startup"
    /\ api_key' = ResolveKey
    /\ IF NotKey(ResolveKey)
       THEN /\ screen' = Append(screen, W("error", "API Key missing.", "", ""))
            /\ pc' = "stopped"
            /\ client' = client
       ELSE /\ client' = TRUE
            /\ pc' = "router"
            /\ screen' = screen
    /\ UNCHANGED <<secrets, environ, demo_choice, competitor, uploaded_file,
                   calls, response, exc, escaped>>

\* lines 274-282: the sidebar radio and the dispatch
Router ==
    /\ pc = "router"
    /\ \E choice \in {Legal, Strategy, Recruiter} : demo_choice' = choice
    /\ pc' = "render"
    /\ UNCHANGED <<secrets, environ, api_key, client, competitor, uploaded_file,
                   calls, response, screen, exc, escaped>>

\* how a try block ends the run: the except clause's widgets are appended, the
\* caught exception is bound, and the renderer returns
FinishTry(r, out) ==
    /\ screen' = screen \o out
    /\ exc' = IF r.raised /\ CatchesException(r.e) THEN r.e ELSE NoExn
    /\ escaped' = IF r.raised /\ ~CatchesException(r.e) THEN r.e.type ELSE ""
    /\ pc' = IF r.raised /\ ~CatchesException(r.e) THEN "crashed" ELSE "done"

\* the failure of client.models.generate_content (network, quota, bad key)
CallError == Exn("APIError", "generate_content failed")

\* lines 25-68: header and inputs; on "Analyze Risk" the prompt is sent
LegalDemo ==
    /\ pc = "render" /\ demo_choice = Legal
    /\ screen' = Append(screen, W("header", "AI Contract Auditor", "", ""))
    /\ \E pressed \in BOOLEAN :
          IF pressed
          THEN calls' = calls + 1 /\ pc' = "awaiting"
          ELSE calls' = calls /\ pc' = "done"
    /\ UNCHANGED <<secrets, environ, api_key, client, demo_choice, competitor,
                   uploaded_file, response, exc, escaped>>

\* lines 64-91: the call returns and the try block runs
LegalReturns ==
    /\ pc = "awaiting" /\ demo_choice = Legal
    /\ \E text \in LegalTexts :
          /\ response' = [bound |-> TRUE, text |-> text]
          /\ FinishTry(LegalTry(text), LegalExcept(LegalTry(text)))
    /\ UNCHANGED <<secrets, environ, api_key, client, demo_choice, competitor,
                   uploaded_file, calls>>

\* lines 64-68: the call raises; it stands outside the try block
LegalCallRaises ==
    /\ pc = "awaiting" /\ demo_choice = Legal
    /\ escaped' = CallError.type
    /\ pc' = "crashed"
    /\ UNCHANGED <<secrets, environ, api_key, client, demo_choice, competitor,
                   uploaded_file, calls, response, screen, exc>>

\* lines 94-135: header, competitor inputs; on "Generate Battlecard" an empty
\* name gets a warning and st.stop(), any other name sends the prompt
StrategyDemo ==
    /\ pc = "render" /\ demo_choice = Strategy
    /\ \E comp \in NamedCompetitors \cup CustomCompetitors, pressed \in BOOLEAN :
          /\ competitor' = comp
          /\ IF ~pressed
             THEN /\ screen' = Append(screen, W("header", "Competitive Battlecard Generator", "", ""))
                  /\ calls' = calls /\ pc' = "done" /\ escaped' = escaped
             ELSE IF comp = ""
             THEN /\ screen' = screen \o
                        <<W("header", "Competitive Battlecard Generator", "", ""),
                          W("warning", "Please enter a competitor name.", "", "")>>
                  /\ calls' = calls /\ pc' = "stopped" /\ escaped' = "StopException"
             ELSE /\ screen' = Append(screen, W("header", "Competitive Battlecard Generator", "", ""))
                  /\ calls' = calls + 1 /\ pc' = "awaiting" /\ escaped' = escaped
    /\ UNCHANGED <<secrets, environ, api_key, client, demo_choice, uploaded_file,
                   response, exc>>

\* lines 130-167: the call returns inside the try block
StrategyReturns ==
    /\ pc = "awaiting" /\ demo_choice = Strategy
    /\ \E text \in StrategyTexts :
          /\ response' = [bound |-> TRUE, text |-> text]
          /\ FinishTry(StrategyTry(text, competitor),
                       StrategyExcept(StrategyTry(text, competitor),
                                      [bound |-> TRUE, text |-> text]))
    /\ UNCHANGED <<secrets, environ, api_key, client, demo_choice, competitor,
                   uploaded_file, calls>>

\* variant of StrategyCallRaises: the failed call is issued again
StrategyCallRaises_Retry ==
    /\ pc = "awaiting" /\ demo_choice = Strategy
    /\ calls' = calls + 1
    /\ UNCHANGED <<secrets, environ, api_key, client, pc, demo_choice, competitor,
                   uploaded_file, response, screen, exc, escaped>>

\* lines 130-167: the call raises inside the try block; `response` is unbound
StrategyCallRaises ==
    /\ pc = "awaiting" /\ demo_choice = Strategy
    /\ FinishTry(Raise(Started, CallError),
                 StrategyExcept(Raise(Started, CallError), response))
    /\ UNCHANGED <<secrets, environ, api_key, client, demo_choice, competitor,
                   uploaded_file, calls, response>>

\* lines 203-210: PdfReader and extract_text over the pages
ExtractText(file) ==
    IF file = "resume.pdf" THEN Ok("Senior AI Engineer, Python, RAG")
    ELSE Err(Exn("PdfReadError", "EOF marker not found"))

\* lines 170-233: header, inputs; on "Screen Candidate" a missing upload or an
\* unreadable PDF gets an error and st.stop(), else the prompt is sent
RecruiterDemo ==
    /\ pc = "render" /\ demo_choice = Recruiter
    /\ \E file \in Uploads, pressed \in BOOLEAN :
          /\ uploaded_file' = file
          /\ IF ~pressed
             THEN /\ screen' = Append(screen, W("header", "Smart Resume Screener", "", ""))
                  /\ calls' = calls /\ pc' = "done" /\ escaped' = escaped /\ exc' = exc
             ELSE IF file = None
             THEN /\ screen' = screen \o
                        <<W("header", "Smart Resume Screener", "", ""),
                          W("error", "Please upload a resume first.", "", "")>>
                  /\ calls' = calls /\ pc' = "stopped" /\ escaped' = "StopException"
                  /\ exc' = exc
             ELSE IF ~ExtractText(file).ok
             THEN /\ screen' = screen \o
                        <<W("header", "Smart Resume Screener", "", ""),
                          W("error", "Could not read PDF. Ensure it is text-based.", "", "")>>
                  /\ calls' = calls /\ pc' = "stopped" /\ escaped' = "StopException"
                  /\ exc' = ExtractText(file).e
             ELSE /\ screen' = Append(screen, W("header", "Smart Resume Screener", "", ""))
                  /\ calls' = calls + 1 /\ pc' = "awaiting" /\ escaped' = escaped
                  /\ exc' = exc
    /\ UNCHANGED <<secrets, environ, api_key, client, demo_choice, competitor,
                   response>>

\* lines 228-271: the call returns inside the try block
RecruiterReturns ==
    /\ pc = "awaiting" /\ demo_choice = Recruiter
    /\ \E text \in RecruiterTexts :
          /\ response' = [bound |-> TRUE, text |-> text]
          /\ FinishTry(RecruiterTry(text), RecruiterExcept(RecruiterTry(text)))
    /\ UNCHANGED <<secrets, environ, api_key, client, demo_choice, competitor,
                   uploaded_file, calls>>

\* lines 228-271: the call raises inside the try block
RecruiterCallRaises ==
    /\ pc = "awaiting" /\ demo_choice = Recruiter
    /\ FinishTry(Raise(Started, CallError), RecruiterExcept(Raise(Started, CallError)))
    /\ UNCHANGED <<secrets, environ, api_key, client, demo_choice, competitor,
                   uploaded_file, calls, response>>

\* any interaction with the page runs the script again from its first line
Rerun ==
    /\ pc \in {"done", "stopped", "crashed"}
    /\ api_key' = Unset
    /\ client' = FALSE
    /\ pc' = "startup"
    /\ demo_choice' = ""
    /\ competitor' = ""
    /\ uploaded_file' = None
    /\ calls' = 0
    /\ response' = NoResponse
    /\ screen' = <<>>
    /\ exc' = NoExn
    /\ escaped' = ""
    /\ UNCHANGED <<secrets, environ>>

Next ==
    \/ Startup
    \/ Router
    \/ LegalDemo
    \/ LegalReturns
    \/ LegalCallRaises
    \/ StrategyDemo
    \/ StrategyReturns
    \/ StrategyCallRaises
    \/ RecruiterDemo
    \/ RecruiterReturns
    \/ RecruiterCallRaises
    \/ Rerun

Spec == Init /\ [][Next]_vars

-----------------------------------------------------------------------------
(* Observations used by the properties below. *)

\* the run has handled a response of the model
Answered == pc \in {"done", "crashed"} /\ response.bound

\* the value the response text parses to
Parsed == json_loads(response.text)

\* the widgets after the renderer's header
Body == SubSeq(screen, 2, Len(screen))

\* the except clauses' messages
FlowErrorLabels == {"Analysis failed: ", "Error generating battlecard: ", "AI Error: "}

IsErrorMessage(wd) == wd.w = "error" /\ wd.field = ""

ShowsErrorMessage == \E i \in DOMAIN screen : IsErrorMessage(screen[i])

ShowsFlowError ==
    \E i \in DOMAIN screen :
        IsErrorMessage(screen[i]) /\ screen[i].label \in FlowErrorLabels

ShowsRecordField == \E i \in DOMAIN screen : screen[i].field # ""

ShowsRawText ==
    \E i \in DOMAIN screen : screen[i].w = "text" /\ screen[i].raw = response.text

\* a flow's try block and its widgets for a given response text
FlowTry(flow, text, comp) ==
    CASE flow = Legal     -> LegalTry(text)
      [] flow = Strategy  -> StrategyTry(text, comp)
      [] flow = Recruiter -> RecruiterTry(text)

FlowOutput(flow, text, comp) ==
    CASE flow = Legal     -> LegalExcept(LegalTry(text))
      [] flow = Strategy  -> StrategyExcept(StrategyTry(text, comp),
                                            [bound |-> TRUE, text |-> text])
      [] flow = Recruiter -> RecruiterExcept(RecruiterTry(text))

StringFields(flow) ==
    CASE flow = Legal     -> {"risk_level"}
      [] flow = Strategy  -> {"their_weakness", "our_strength", "pricing_comparison"}
      [] flow = Recruiter -> {"summary", "notice_period_detected", "recommendation",
                              "outreach_draft"}

ListFields(flow) ==
    CASE flow = Legal     -> {"analysis"}
      [] flow = Strategy  -> {"kill_points"}
      [] flow = Recruiter -> {"key_missing_skills"}

RequiredFields(flow) ==
    CASE flow = Legal     -> {"risk_score"}
      [] flow = Strategy  -> {}
      [] flow = Recruiter -> {"match_score"}

\* d with "N/A" for each missing string field and [] for each missing list field
WithDefaults(flow, d) ==
    [k \in DOMAIN d \cup StringFields(flow) \cup ListFields(flow) |->
        IF k \in DOMAIN d THEN d[k]
        ELSE IF k \in StringFields(flow) THEN PyStr("N/A") ELSE PyList(<<>>)]

NoKeyAvailable == secrets \in {Absent, ""} /\ environ \in {Absent, ""}

-----------------------------------------------------------------------------
(* C1: in each of the three flows, a response that parses to an array with  *)
(* at least one element renders exactly what the flow renders for the       *)
(* array's first element sent as a bare object (stated for first elements   *)
(* that render as a record when sent bare).                                 *)
C1_FirstElementOnly ==
    (/\ Answered
     /\ Parsed.ok
     /\ Parsed.v.t = "list"
     /\ Len(Parsed.v.items) >= 1
     /\ Parsed.v.items[1].t = "dict"
     /\ ~FlowTry(demo_choice, Dumps(Parsed.v.items[1]), competitor).raised)
    => Body = FlowOutput(demo_choice, Dumps(Parsed.v.items[1]), competitor)

(* C2: in every flow, an object lacking a string field is rendered with     *)
(* "N/A" for it and an object lacking a list field with an empty sequence,  *)
(* and no error outcome is reached: the run shows what it shows for the     *)
(* object with those defaults filled in.                                    *)
C2_MissingFieldsDefaulted ==
    (/\ Answered
     /\ Parsed.ok
     /\ Parsed.v.t = "dict"
     /\ (StringFields(demo_choice) \cup ListFields(demo_choice)) \ DOMAIN Parsed.v.d # {}
     /\ ~FlowTry(demo_choice, Dumps(PyDict(WithDefaults(demo_choice, Parsed.v.d))),
                 competitor).raised)
    => /\ exc = NoExn
       /\ Body = FlowOutput(demo_choice,
                            Dumps(PyDict(WithDefaults(demo_choice, Parsed.v.d))),
                            competitor)

(* C3 as stated: a parse error, an empty result, a missing required field   *)
(* and a document extraction error are each shown as an inline message and  *)
(* leave the renderer by a normal return; of the error kinds only a missing *)
(* key ends the run by st.stop().                                           *)
C3_OnlyMissingKeyHalts ==
    /\ (exc # NoExn /\ exc.type # CallError.type)
           => ShowsErrorMessage /\ escaped = "" /\ pc = "done"
    /\ (api_key # Unset /\ NotKey(api_key)) => pc = "stopped"

(* C3 amended: a parse error, an empty result and a missing required field  *)
(* are shown as an inline message and the renderer returns; a document      *)
(* extraction error is shown as an inline message and then st.stop() ends   *)
(* the run, as it does for a missing key, an empty competitor name and a    *)
(* missing upload; none of the four leaves the renderer as an uncaught      *)
(* exception.                                                               *)
C3_ErrorsShownInline ==
    /\ escaped \in {"", "StopException", CallError.type}
    /\ (Answered /\ FlowTry(demo_choice, response.text, competitor).raised)
           => exc = FlowTry(demo_choice, response.text, competitor).e
    /\ (exc # NoExn /\ exc.type # CallError.type)
           => /\ ShowsErrorMessage
              /\ pc # "crashed"
              /\ IF exc.type = "PdfReadError"
                 THEN pc = "stopped" /\ escaped = "StopException"
                 ELSE pc = "done" /\ escaped = ""
    /\ pc = "stopped"
           => \/ NotKey(api_key)
              \/ demo_choice = Strategy /\ competitor = ""
              \/ demo_choice = Recruiter /\ uploaded_file = None
              \/ demo_choice = Recruiter /\ ~ExtractText(uploaded_file).ok

C3_Witness ==
    /\ pc = "stopped"
    /\ exc.type = "PdfReadError"
    /\ ~NotKey(api_key)
    /\ ShowsErrorMessage

(* C4 as stated: when the response text is not valid JSON, the flow shows   *)
(* an error message, renders no record field, and offers the unchanged      *)
(* response text for display.                                               *)
C4_RawTextOffered ==
    (Answered /\ ~Parsed.ok)
    => /\ exc.type = "JSONDecodeError"
       /\ ShowsFlowError
       /\ ~ShowsRecordField
       /\ ShowsRawText

(* C4 amended: when the response text is not valid JSON, the flow shows an  *)
(* error message and renders no record field; the unchanged response text   *)
(* is offered for display in the battlecard flow only, the contract-risk    *)
(* and resume-screening flows show the error message alone.                 *)
C4_RawTextInBattlecardOnly ==
    (Answered /\ ~Parsed.ok)
    => /\ exc.type = "JSONDecodeError"
       /\ pc = "done"
       /\ ShowsFlowError
       /\ ~ShowsRecordField
       /\ ShowsRawText <=> demo_choice = Strategy

C4_Witness ==
    /\ Answered
    /\ ~Parsed.ok
    /\ demo_choice = Strategy
    /\ ShowsRawText
    /\ response.text = <<LBare("Sorry, I cannot help.")>>

(* C5: a response that parses to an empty array ends, in every flow, in an  *)
(* error whose kind and message differ from those of a parse error and of a *)
(* missing required field, and no record field is rendered.                 *)
C5_EmptyArrayFails ==
    (Answered /\ Parsed.ok /\ Parsed.v.t = "list" /\ Len(Parsed.v.items) = 0)
    => /\ pc = "done"
       /\ exc.type \in {"IndexError", "TypeError"}
       /\ exc.type # json_loads(<<LBare("Sorry, I cannot help.")>>).e.type
       /\ \A k \in RequiredFields(Legal) \cup RequiredFields(Recruiter) :
              /\ exc.type # GetItem(PyDict(EmptyDict), k).e.type
              /\ exc.msg # GetItem(PyDict(EmptyDict), k).e.msg
       /\ exc.msg # json_loads(<<LBare("Sorry, I cannot help.")>>).e.msg
       /\ ShowsFlowError
       /\ ~ShowsRecordField

C5_Witness ==
    /\ Answered
    /\ Parsed.ok /\ Parsed.v.t = "list" /\ Len(Parsed.v.items) = 0
    /\ demo_choice = Strategy
    /\ exc.type = "IndexError"

(* C6: an object lacking risk_score (contract-risk) or match_score (resume  *)
(* screening) ends in a missing-key error shown as the flow's failure       *)
(* message; no widget shows a value for the missing field.                  *)
C6_MissingScoreFails ==
    (/\ Answered
     /\ Parsed.ok
     /\ Parsed.v.t = "dict"
     /\ RequiredFields(demo_choice) \ DOMAIN Parsed.v.d # {})
    => /\ pc = "done"
       /\ exc.type = "KeyError"
       /\ exc.msg \in RequiredFields(demo_choice)
       /\ ShowsFlowError
       /\ \A i \in DOMAIN screen : screen[i].field \notin RequiredFields(demo_choice)
       /\ ~ShowsRecordField

C6_Witness ==
    /\ Answered
    /\ Parsed.ok /\ Parsed.v.t = "dict"
    /\ demo_choice = Legal
    /\ "risk_score" \notin DOMAIN Parsed.v.d
    /\ "risk_level" \in DOMAIN Parsed.v.d
    /\ exc.type = "KeyError"

(* C7: with no key in the secret store and none in the environment (absent  *)
(* or empty), the run shows an error and stops: the client is never built,  *)
(* the router and the renderers are never reached, no request is issued.    *)
C7_NoKeyHalts ==
    NoKeyAvailable
    => /\ client = FALSE
       /\ pc \in {"startup", "stopped"}
       /\ demo_choice = ""
       /\ calls = 0
       /\ ~response.bound
       /\ pc = "stopped" => screen = <<W("error", "API Key missing.", "", "")>>

C7_Witness ==
    /\ NoKeyAvailable
    /\ secrets = ""
    /\ pc = "stopped"
    /\ ShowsErrorMessage

(* C8: one press issues at most one call to the model; once the call has    *)
(* failed, or its response has failed to parse or render, no request is     *)
(* pending or issued again in that run.                                     *)
C8_SingleShot ==
    /\ calls <= 1
    /\ pc = "awaiting" => calls = 1 /\ exc = NoExn /\ escaped = ""
    /\ (exc # NoExn \/ escaped # "") => pc \in {"done", "stopped", "crashed"}

C8_Witness ==
    /\ pc = "done"
    /\ calls = 1
    /\ exc = CallError
    /\ demo_choice = Strategy

(* C9: in each of the three flows a failing call to the model is handled    *)
(* inside the flow and shown as an inline error message; it does not leave  *)
(* the renderer.                                                            *)
C9_CallFailureHandled ==
    /\ escaped # CallError.type
    /\ exc = CallError => pc = "done" /\ ShowsFlowError

(* C10: for every request, either the record is rendered and no error       *)
(* message is shown, or an error message is shown and no record field has   *)
(* been rendered.                                                           *)
C10_RecordOrError ==
    Answered
    => \/ exc = NoExn /\ ~ShowsFlowError /\ escaped = ""
       \/ ShowsFlowError /\ ~ShowsRecordField

=============================================================================
